---- MODULE Spec2Model ----
(***************************************************************************)
(* llamaindexchat: the Streamlit chat application (src/app.py) and the     *)
(* one-shot knowledge ingestion script (src/ingest_knowledge.py).          *)
(*                                                                         *)
(* The chat application is a script that Streamlit re-runs from top to     *)
(* bottom for every user interaction of a browser session.  One process    *)
(* serves several sessions: each has its own st.session_state, while the   *)
(* module global openai.api_key, the st.cache_resource result of           *)
(* load_data (index and TokenCountingHandler) and the st.cache_data cache  *)
(* of query_chatengine_cache are shared by all of them.                    *)
(*                                                                         *)
(* The chat engine, the LLM and the GitHub reader are external             *)
(* collaborators: their results are nondeterministic choices (an answer    *)
(* with its source nodes, or an exception).                                *)
(***************************************************************************)
EXTENDS Integers, Sequences, FiniteSets, TLC

(***************************************************************************)
(* Bounds of the model.                                                    *)
(***************************************************************************)
\* longest message list a session builds before a question is refused
MaxMsgs == 5
\* chat engine invocations (chat_engine.chat) in one process
MaxCalls == 2
\* prompt / completion tokens the handler records for one LLM call
PromptPerCall == 2
CompletionPerCall == 1
\* documents the GitHub reader returns, and chunks one document makes
MaxDocs == 2
MaxChunks == 2

Sessions == {"s1", "s2"}

\* Python's None
None == "<None>"

(***************************************************************************)
(* Dictionaries (st.session_state, a document's extra_info).               *)
(***************************************************************************)
EmptyDict == [k \in {} |-> None]
Has(d, k) == k \in DOMAIN d
Get(d, k, dflt) == IF k \in DOMAIN d THEN d[k] ELSE dflt
Put(d, k, v) == [n \in DOMAIN d \cup {k} |-> IF n = k THEN v ELSE d[n]]
SetDefault(d, k, v) == IF k \in DOMAIN d THEN d ELSE Put(d, k, v)
Del(d, K) == [n \in DOMAIN d \ K |-> d[n]]

\* Python truthiness of a string-or-None, and `a or b`
Truthy(x) == x # None /\ x # ""
Or(a, b) == IF Truthy(a) THEN a ELSE b

(***************************************************************************)
(* Inputs of the chat application.                                         *)
(***************************************************************************)
\* the keys a user may type into the OPENAI-API-KEY field, and the value
\* openai.api_key takes from the environment on import
ApiKeys == {"", "sk-1"}

\* st.chat_input: a typed question
Typed == {"how do I persist an index?"}

\* the four preset-question buttons: session flag -> prompt text
Buttons == {"btn_llama_index", "btn_retriever", "btn_diff", "btn_rag"}

ButtonPrompt(b) ==
    CASE b = "btn_llama_index" -> "explain the basic usage pattern in LlamaIndex"
      [] b = "btn_retriever"   -> "how can I ingest data from the GoogleDocsReader?"
      [] b = "btn_diff"        -> "what's the difference between document and node?"
      [] b = "btn_rag"         -> "how can I make a RAG application performant?"

Prompts == Typed \cup {ButtonPrompt(b) : b \in Buttons} \cup {None}

\* widgets that sidebar() registers in st.session_state under a key
SidebarKeys == {"openai_api_key", "with_cache", "with_sources"}

Greeting == [role |-> "assistant", content |-> "Try one of the sample questions or ask your own!"]

(***************************************************************************)
(* Responses of the chat engine: the answer text and its source nodes.     *)
(* A node's metadata is a dictionary; a file name is a sequence of path    *)
(* segments and separators; a score is kept in units of 1/10000.           *)
(***************************************************************************)
Node(meta, score) == [has_metadata |-> TRUE, metadata |-> meta, score |-> score]
BareNode(score) == [has_metadata |-> FALSE, metadata |-> EmptyDict, score |-> score]

WinName == <<"docs", "\\", "guides", "\\", "a.md">>
NixName == <<"docs", "/", "b.md">>

OkNodeA == Node([filename |-> WinName, author |-> "LlamaIndex"], 8126)
OkNodeB == Node([filename |-> NixName, author |-> "LlamaIndex"], 7904)
NoFilenameNode == Node([author |-> "LlamaIndex"], 7513)
NoAuthorNode == Node([filename |-> NixName], 7008)
NoMetadataNode == BareNode(6999)

Response(text, nodes) == [response |-> text, source_nodes |-> nodes]

\* what chat_engine.chat may return
Responses ==
    { Response("a1", <<OkNodeA, OkNodeB>>),
      Response("a2", <<NoMetadataNode, OkNodeB>>),
      Response("a1", <<OkNodeA, NoFilenameNode>>),
      Response("a2", <<NoAuthorNode>>) }

\* str.replace('\\', '/') on a file name
Replace(name) == [i \in 1..Len(name) |-> IF name[i] = "\\" THEN "/" ELSE name[i]]

\* float("{:.3f}".format(score)): the score rounded to three decimals, in
\* units of 1/1000 (no score of the model lies halfway)
Round3(score) == (score + 5) \div 10

\* the nodes on which the loop body of get_metadata raises AttributeError:
\* item.metadata.get('filename') is None and None has no replace
RaisesOnNode(item) == item.has_metadata /\ ~Has(item.metadata, "filename")

RECURSIVE MetadataOf(_)
MetadataOf(nodes) ==
    IF nodes = <<>> THEN <<>>
    ELSE LET item == Head(nodes)
         IN  IF item.has_metadata
             THEN << [filename |-> Replace(item.metadata["filename"]),
                      author |-> Get(item.metadata, "author", None),
                      score |-> Round3(item.score)] >> \o MetadataOf(Tail(nodes))
             ELSE MetadataOf(Tail(nodes))

\* get_metadata: the list of sources, or the exception of the first node
\* the loop body fails on
get_metadata(response) ==
    IF \E i \in 1..Len(response.source_nodes) : RaisesOnNode(response.source_nodes[i])
    THEN [raised |-> TRUE, sources |-> <<>>]
    ELSE [raised |-> FALSE, sources |-> MetadataOf(response.source_nodes)]

Base == <<"https://github.com/jerryjliu/llama_index/tree/main/">>

\* format_sources: one line per source returned by get_metadata
format_sources(response) ==
    LET md == get_metadata(response)
    IN  IF md.raised THEN [raised |-> TRUE, text |-> <<>>]
        ELSE [raised |-> FALSE,
              text |-> [i \in 1..Len(md.sources) |->
                          [url |-> Base \o md.sources[i].filename,
                           author |-> md.sources[i].author,
                           score |-> md.sources[i].score]]]

(***************************************************************************)
(* State.                                                                  *)
(***************************************************************************)
VARIABLES
    api_key,        \* openai.api_key, a module global of the process
    token_counter,  \* the TokenCountingHandler load_data returns (shared)
    index_loaded,   \* st.cache_resource holds the result of load_data
    cache,          \* st.cache_data of query_chatengine_cache: prompt -> response
    calls,          \* number of chat_engine.chat invocations so far
    session_state,  \* st.session_state of every session, a dictionary
    ui,             \* what the last script run of a session put on the page
    pc,             \* where the script run of a session stands
    run,            \* the locals of a script run that waits for the chat engine
    failed,         \* the last query of the session ended in the except branch
    storage,        \* the directory ./storage
    ing_pc,         \* ingest_knowledge.py: where the script stands
    ing_env,        \* ... the environment variables of its process
    ing_docs,       \* ... the documents load_data returned
    ing_nodes,      \* ... the nodes the parser made of them
    ing_embedded,   \* ... how many nodes VectorStoreIndex has embedded
    ing_remote,     \* ... the collaborator calls it has made
    ing_persists,   \* ... how often persist ran
    ing_error       \* ... the exception its __main__ re-raised

appvars == <<api_key, token_counter, index_loaded, cache, calls, session_state,
             ui, pc, run, failed>>

ingvars == <<ing_pc, ing_env, ing_docs, ing_nodes, ing_embedded, ing_remote,
             ing_persists, ing_error>>

Miss == [response |-> None, source_nodes |-> <<>>]

ZeroCounts == [prompt_llm_token_count |-> 0, completion_llm_token_count |-> 0]

NoRun == [prompt |-> None, chat_history |-> <<>>, with_cache |-> FALSE,
          response |-> Miss, prompt_tokens |-> 0, completion_tokens |-> 0]

BlankPage == [sidebar |-> FALSE, chat |-> FALSE, warning |-> FALSE, error |-> FALSE]

Msgs(st) == Get(st, "messages", <<>>)

Last(seq) == seq[Len(seq)]

(***************************************************************************)
(* Functions of src/app.py on one session's state.                         *)
(***************************************************************************)
\* module level, lines 24-28: the session totals are created on the first run
InitTokenTotals(st) ==
    SetDefault(SetDefault(st, "llm_prompt_tokens", 0), "llm_completion_tokens", 0)

\* module level, lines 30-31: openai.api_key after the assignment
ApiKeyOf(st, key) ==
    IF Has(st, "openai_api_key") THEN st["openai_api_key"] ELSE key

\* clear_chat_history without its last assignment
clear_chat_history_keeps_rag(st) ==
    LET a == Put(st, "messages", <<Greeting>>)
        b == Put(a, "btn_llama_index", FALSE)
        c == Put(b, "btn_retriever", FALSE)
    IN  Put(c, "btn_diff", FALSE)

\* clear_chat_history
clear_chat_history(st) ==
    LET a == Put(st, "messages", <<Greeting>>)
        b == Put(a, "btn_llama_index", FALSE)
        c == Put(b, "btn_retriever", FALSE)
        d == Put(c, "btn_diff", FALSE)
    IN  Put(d, "btn_rag", FALSE)

\* sidebar: the keyed widgets take their default value when the session has
\* no value for the key, and keep the session's value otherwise
sidebar(st) ==
    LET a == SetDefault(st, "openai_api_key", "")
        b == SetDefault(a, "with_cache", TRUE)
    IN  SetDefault(b, "with_sources", TRUE)

\* update_token_counters: the session totals after the two additions
update_token_counters(st, tc) ==
    LET a == Put(st, "llm_prompt_tokens",
                 st["llm_prompt_tokens"] + tc.prompt_llm_token_count)
    IN  Put(a, "llm_completion_tokens",
            a["llm_completion_tokens"] + tc.completion_llm_token_count)

\* token_counter.reset_counts(), the last statement of update_token_counters
reset_counts(tc) == ZeroCounts

\* index.as_chat_engine(chat_mode="condense_question"): layout builds a new
\* engine in every run and hands it nothing of the session, so the engine's
\* conversation history starts empty
as_chat_engine == <<>>

\* layout, lines 180-205: a clicked button sets its flag
PressButtons(st, ev) ==
    IF ev.type = "button" THEN Put(st, ev.key, TRUE) ELSE st

user_input_button(ev) == IF ev.type = "button" THEN ButtonPrompt(ev.key) ELSE None

user_input(ev) == IF ev.type = "chat_input" THEN ev.value ELSE None

\* layout, lines 207-216: the greeting on the first run, then the question
AppendInput(st, ev) ==
    LET a == SetDefault(st, "messages", <<Greeting>>)
    IN  IF Truthy(user_input(ev)) \/ Truthy(user_input_button(ev))
        THEN Put(a, "messages",
                 Append(a["messages"],
                        [role |-> "user",
                         content |-> Or(user_input(ev), user_input_button(ev))]))
        ELSE a

\* generate_assistant_response, lines 83-88, then update_token_counters as
\* layout calls it (lines 224-225): the outcome of the try block once the
\* response is there.  format_sources raising leaves the block at line 83.
Respond(st, tc, response) ==
    LET fs == format_sources(response)
        message == [role |-> "assistant", content |-> response.response,
                    sources |-> fs.text]
        appended == Put(st, "messages", Append(st["messages"], message))
    IN  IF fs.raised
        THEN [st |-> st, tc |-> tc, error |-> TRUE]
        ELSE [st |-> update_token_counters(appended, tc),
              tc |-> reset_counts(tc), error |-> FALSE]

\* the end of a script run: the state of keyed widgets the run did not
\* render is dropped from st.session_state
EndRun(st, sidebar_rendered) ==
    IF sidebar_rendered THEN st ELSE Del(st, SidebarKeys)

(***************************************************************************)
(* The interactions a page offers.  Every one of them re-runs the script.  *)
(* 'Display Sources' decides only whether st.info shows the sources of a   *)
(* message (lines 55 and 84); it is left at its default.                   *)
(***************************************************************************)
Rerun == [type |-> "rerun", key |-> None, value |-> None]

Events(s) ==
    {Rerun}
    \cup (IF ui[s].sidebar
          THEN {[type |-> "text_input", key |-> "openai_api_key", value |-> k] : k \in ApiKeys}
               \cup {[type |-> "toggle", key |-> "with_cache", value |-> None]}
          ELSE {})
    \cup (IF ui[s].chat /\ Len(Msgs(session_state[s])) + 2 <= MaxMsgs
          THEN {[type |-> "chat_input", key |-> None, value |-> q] : q \in Typed}
               \cup {[type |-> "button", key |-> b, value |-> None] :
                        b \in {x \in Buttons : ~Get(session_state[s], x, FALSE)}}
          ELSE {})

\* the widget values the browser sends are in st.session_state before the
\* script runs
SetWidgets(st, ev) ==
    CASE ev.type = "text_input" -> Put(st, ev.key, ev.value)
      [] ev.type = "toggle"     -> Put(st, ev.key, ~st[ev.key])
      [] OTHER                  -> st

\* load_data: the cached resource, or a load from ./storage, which raises
\* when the directory holds no index
load_data_raises == ~index_loaded /\ storage = "absent"

(***************************************************************************)
(* One script run of session s for the interaction ev: the module level    *)
(* code, main, sidebar and layout, up to the end of the run or up to the   *)
(* call of chat_engine.chat, where the run waits for the engine.           *)
(***************************************************************************)
ScriptRun(s, ev) ==
    LET st0 == InitTokenTotals(SetWidgets(session_state[s], ev))
        key == ApiKeyOf(st0, api_key)
        \* main: sidebar() runs before layout() only while the session has
        \* no 'openai_api_key'
        sidebar_first == ~Has(st0, "openai_api_key")
        st1 == IF sidebar_first THEN sidebar(st0) ELSE st0
        st2 == AppendInput(PressButtons(st1, ev), ev)
        prompt == Or(user_input(ev), user_input_button(ev))
        hit == st2["with_cache"] /\ cache[prompt] # Miss
        out == Respond(st2, token_counter, cache[prompt])
    IN  /\ api_key' = key
        /\ IF ~Truthy(key)
           THEN \* layout, lines 171-173: the warning and st.stop()
                /\ session_state' = [session_state EXCEPT ![s] = EndRun(st1, sidebar_first)]
                /\ ui' = [ui EXCEPT ![s] = [BlankPage EXCEPT !.sidebar = sidebar_first,
                                                            !.warning = TRUE]]
                /\ pc' = [pc EXCEPT ![s] = "idle"]
                /\ UNCHANGED <<token_counter, index_loaded, cache, calls, run, failed>>
           ELSE IF load_data_raises
           THEN \* layout, line 176, outside the try block: the run dies
                /\ session_state' = [session_state EXCEPT ![s] = EndRun(st1, sidebar_first)]
                /\ ui' = [ui EXCEPT ![s] = [BlankPage EXCEPT !.sidebar = sidebar_first,
                                                            !.error = TRUE]]
                /\ pc' = [pc EXCEPT ![s] = "idle"]
                /\ UNCHANGED <<token_counter, index_loaded, cache, calls, run, failed>>
           ELSE /\ index_loaded' = TRUE
                /\ IF Last(st2["messages"]).role = "assistant"
                   THEN \* line 222: nothing to answer; sidebar() closes the run
                        /\ session_state' = [session_state EXCEPT ![s] = sidebar(st2)]
                        /\ ui' = [ui EXCEPT ![s] = [BlankPage EXCEPT !.sidebar = TRUE,
                                                                    !.chat = TRUE]]
                        /\ pc' = [pc EXCEPT ![s] = "idle"]
                        /\ UNCHANGED <<token_counter, cache, calls, run, failed>>
                   ELSE IF hit
                   THEN \* query_chatengine_cache returns the stored response
                        /\ session_state' = [session_state EXCEPT ![s] = sidebar(out.st)]
                        /\ token_counter' = out.tc
                        /\ ui' = [ui EXCEPT ![s] = [BlankPage EXCEPT !.sidebar = TRUE,
                                                                    !.chat = TRUE,
                                                                    !.error = out.error]]
                        /\ failed' = [failed EXCEPT ![s] = out.error]
                        /\ pc' = [pc EXCEPT ![s] = "idle"]
                        /\ UNCHANGED <<cache, calls, run>>
                   ELSE \* query_chatengine(_cache) calls chat_engine.chat(prompt)
                        /\ calls < MaxCalls
                        /\ calls' = calls + 1
                        /\ session_state' = [session_state EXCEPT ![s] = st2]
                        /\ run' = [run EXCEPT ![s] =
                                     [prompt |-> prompt, chat_history |-> as_chat_engine,
                                      with_cache |-> st2["with_cache"],
                                      response |-> Miss,
                                      prompt_tokens |-> 0, completion_tokens |-> 0]]
                        /\ pc' = [pc EXCEPT ![s] = "condense"]
                        /\ UNCHANGED <<token_counter, cache, ui, failed>>

\* the application is not served while the ingestion script runs
Serving == ing_pc \in {"idle", "done", "failed"}

\* a user interaction with the page of an idle session
Interact(s) ==
    /\ Serving
    /\ pc[s] = "idle"
    /\ \E ev \in Events(s) : ScriptRun(s, ev)
    /\ UNCHANGED <<storage, ingvars>>

\* the interactions of a user who only enters a key and types questions
PlainEvents(s) == {ev \in Events(s) : ev.type \in {"rerun", "text_input", "chat_input"}}

InteractPlain(s) ==
    /\ Serving
    /\ pc[s] = "idle"
    /\ \E ev \in PlainEvents(s) : ScriptRun(s, ev)
    /\ UNCHANGED <<storage, ingvars>>

\* the 'Clear Messages' button: Streamlit runs the on_click callback, then
\* the script
ClickClear(s) ==
    /\ pc[s] = "idle"
    /\ ui[s].sidebar
    /\ session_state' = [session_state EXCEPT ![s] = clear_chat_history(@)]
    /\ pc' = [pc EXCEPT ![s] = "callback"]
    /\ UNCHANGED <<api_key, token_counter, index_loaded, cache, calls, ui, run,
                   failed, storage>>
    /\ UNCHANGED ingvars

RunAfterCallback(s) ==
    /\ pc[s] = "callback"
    /\ ScriptRun(s, Rerun)
    /\ UNCHANGED <<storage, ingvars>>

(***************************************************************************)
(* chat_engine.chat(prompt) in condense_question mode: one LLM call        *)
(* condenses the question against the engine's conversation history, a     *)
(* second one answers from the retrieved nodes.  The token counter records *)
(* every LLM call when it ends; either call may raise.                     *)
(***************************************************************************)
RecordCall(tc) ==
    [prompt_llm_token_count |-> tc.prompt_llm_token_count + PromptPerCall,
     completion_llm_token_count |-> tc.completion_llm_token_count + CompletionPerCall]

\* layout, lines 227-228: the except branch shows the error; sidebar() follows
Except(s) ==
    /\ ui' = [ui EXCEPT ![s] = [BlankPage EXCEPT !.sidebar = TRUE, !.chat = TRUE,
                                                !.error = TRUE]]
    /\ failed' = [failed EXCEPT ![s] = TRUE]
    /\ pc' = [pc EXCEPT ![s] = "idle"]
    /\ run' = [run EXCEPT ![s] = NoRun]

CondenseDone(s) ==
    /\ pc[s] = "condense"
    /\ token_counter' = RecordCall(token_counter)
    /\ run' = [run EXCEPT ![s].prompt_tokens = @ + PromptPerCall,
                          ![s].completion_tokens = @ + CompletionPerCall]
    /\ pc' = [pc EXCEPT ![s] = "answer"]
    /\ UNCHANGED <<api_key, index_loaded, cache, calls, session_state, ui, failed, storage>>
    /\ UNCHANGED ingvars
    /\ UNCHANGED ingvars

CondenseRaise(s) ==
    /\ pc[s] = "condense"
    /\ Except(s)
    /\ UNCHANGED <<api_key, token_counter, index_loaded, cache, calls, session_state, storage>>
    /\ UNCHANGED ingvars

AnswerRaise(s) ==
    /\ pc[s] = "answer"
    /\ Except(s)
    /\ UNCHANGED <<api_key, token_counter, index_loaded, cache, calls, session_state, storage>>
    /\ UNCHANGED ingvars

\* chat returns its response to query_chatengine(_cache); st.cache_data
\* stores what query_chatengine_cache returns under the prompt
AnswerDone(s) ==
    /\ pc[s] = "answer"
    /\ \E response \in Responses :
         /\ cache' = IF run[s].with_cache
                     THEN [cache EXCEPT ![run[s].prompt] = response]
                     ELSE cache
         /\ run' = [run EXCEPT ![s].response = response,
                               ![s].prompt_tokens = @ + PromptPerCall,
                               ![s].completion_tokens = @ + CompletionPerCall]
    /\ token_counter' = RecordCall(token_counter)
    /\ pc' = [pc EXCEPT ![s] = "respond"]
    /\ UNCHANGED <<api_key, index_loaded, calls, session_state, ui, failed, storage>>
    /\ UNCHANGED ingvars

\* the rest of generate_assistant_response and of the run
Finish(s) ==
    /\ pc[s] = "respond"
    /\ LET out == Respond(session_state[s], token_counter, run[s].response)
       IN  /\ session_state' = [session_state EXCEPT ![s] = out.st]
           /\ token_counter' = out.tc
           /\ ui' = [ui EXCEPT ![s] = [BlankPage EXCEPT !.sidebar = TRUE, !.chat = TRUE,
                                                       !.error = out.error]]
           /\ failed' = [failed EXCEPT ![s] = out.error]
    /\ pc' = [pc EXCEPT ![s] = "idle"]
    /\ run' = [run EXCEPT ![s] = NoRun]
    /\ UNCHANGED <<api_key, index_loaded, cache, calls, storage>>
    /\ UNCHANGED ingvars

(***************************************************************************)
(* src/ingest_knowledge.py, run once as a script.  What the variables hold *)
(* when __main__ returns or re-raises is the state the process ended in.   *)
(***************************************************************************)
EnvNames == {"OPENAI_API_KEY", "GITHUB_TOKEN"}

\* a document as the reader returns it: extra_info and the number of chunks
\* its text makes
FetchedDocs ==
    { [extra_info |-> e, chunks |-> c, metadata |-> EmptyDict] :
        e \in { [file_name |-> "a.md", file_path |-> "docs/a.md"],
                [file_path |-> "docs/b.md"] },
        c \in 1..MaxChunks }

DocLists == UNION { [1..n -> FetchedDocs] : n \in 0..MaxDocs }

\* load_data, lines 69-71: the loop that tags every document
Tag(doc) ==
    [doc EXCEPT !.metadata = [filename |-> doc.extra_info["file_name"],
                              author |-> "LlamaIndex"]]

TagRaises(docs) == \E i \in 1..Len(docs) : ~Has(docs[i].extra_info, "file_name")

\* parser.get_nodes_from_documents: every chunk carries its document's metadata
RECURSIVE NodesOf(_)
NodesOf(docs) ==
    IF docs = <<>> THEN <<>>
    ELSE [i \in 1..Head(docs).chunks |-> [metadata |-> Head(docs).metadata]]
         \o NodesOf(Tail(docs))

\* __main__, lines 100-102: the exception is logged and re-raised
Exit(error) ==
    /\ ing_pc' = IF error = None THEN "done" ELSE "failed"
    /\ ing_error' = error
    /\ UNCHANGED <<ing_env, ing_docs, ing_nodes, ing_embedded, ing_remote>>

AppFresh ==
    /\ calls = 0
    /\ \A s \in Sessions : session_state[s] = EmptyDict /\ ui[s] = BlankPage

\* python ingest_knowledge.py
IngestLaunch ==
    /\ ing_pc = "idle"
    /\ AppFresh
    /\ ing_pc' = "env"
    /\ ing_env' \in [EnvNames -> {None, "", "set"}]
    /\ UNCHANGED <<ing_docs, ing_nodes, ing_embedded, ing_remote, ing_persists,
                   ing_error, storage>>
    /\ UNCHANGED appvars

\* load_environment_vars without the check of github_token
load_environment_vars_key_only ==
    /\ ing_pc = "env"
    /\ IF ~Truthy(ing_env["OPENAI_API_KEY"])
       THEN /\ Exit("EnvironmentError")
       ELSE /\ ing_pc' = "loader"
            /\ UNCHANGED <<ing_env, ing_docs, ing_nodes, ing_embedded, ing_remote, ing_error>>
    /\ UNCHANGED <<ing_persists, storage>>
    /\ UNCHANGED appvars

\* load_environment_vars; __main__ logs and re-raises what it raises
load_environment_vars ==
    /\ ing_pc = "env"
    /\ IF ~Truthy(ing_env["OPENAI_API_KEY"]) \/ ~Truthy(ing_env["GITHUB_TOKEN"])
       THEN /\ Exit("EnvironmentError")
       ELSE /\ ing_pc' = "loader"
            /\ UNCHANGED <<ing_env, ing_docs, ing_nodes, ing_embedded, ing_remote, ing_error>>
    /\ UNCHANGED <<ing_persists, storage>>
    /\ UNCHANGED appvars

\* initialize_github_loader: download_loader fetches the reader and may raise
initialize_github_loader ==
    /\ ing_pc = "loader"
    /\ \/ /\ ing_pc' = "load"
          /\ ing_remote' = ing_remote \cup {"download_loader"}
          /\ UNCHANGED <<ing_env, ing_docs, ing_nodes, ing_embedded, ing_error>>
       \/ Exit("Exception")
    /\ UNCHANGED <<ing_persists, storage>>
    /\ UNCHANGED appvars

\* load_data: the reader fetches the documents or raises; the loop tags them
\* and raises KeyError on a document without 'file_name'
load_data ==
    /\ ing_pc = "load"
    /\ \/ \E docs \in DocLists :
            IF TagRaises(docs)
            THEN Exit("Exception")
            ELSE /\ ing_docs' = [i \in 1..Len(docs) |-> Tag(docs[i])]
                 /\ ing_remote' = ing_remote \cup {"fetch"}
                 /\ ing_pc' = "parse"
                 /\ UNCHANGED <<ing_env, ing_nodes, ing_embedded, ing_error>>
       \/ Exit("Exception")
    /\ UNCHANGED <<ing_persists, storage>>
    /\ UNCHANGED appvars

\* index_data, lines 79-80
ParseNodes ==
    /\ ing_pc = "parse"
    /\ \/ /\ ing_nodes' = NodesOf(ing_docs)
          /\ ing_pc' = "embed"
          /\ UNCHANGED <<ing_env, ing_docs, ing_embedded, ing_remote, ing_error>>
       \/ Exit("Exception")
    /\ UNCHANGED <<ing_persists, storage>>
    /\ UNCHANGED appvars

\* index_data, line 83: VectorStoreIndex(nodes) embeds node after node
EmbedNode ==
    /\ ing_pc = "embed"
    /\ ing_embedded < Len(ing_nodes)
    /\ \/ /\ ing_embedded' = ing_embedded + 1
          /\ ing_remote' = ing_remote \cup {"embed"}
          /\ UNCHANGED <<ing_pc, ing_env, ing_docs, ing_nodes, ing_error>>
       \/ Exit("Exception")
    /\ UNCHANGED <<ing_persists, storage>>
    /\ UNCHANGED appvars

\* persist although the embedding of the nodes has not come to its end
PersistUnguarded ==
    /\ ing_pc = "embed"
    /\ storage' = "new"
    /\ ing_persists' = ing_persists + 1
    /\ ing_remote' = ing_remote \cup {"persist"}
    /\ ing_pc' = "done"
    /\ UNCHANGED <<ing_env, ing_docs, ing_nodes, ing_embedded, ing_error>>
    /\ UNCHANGED appvars

\* index_data, lines 85-89: the index is built; persist, then return
Persist ==
    /\ ing_pc = "embed"
    /\ ing_embedded = Len(ing_nodes)
    /\ storage' = "new"
    /\ ing_persists' = ing_persists + 1
    /\ ing_remote' = ing_remote \cup {"persist"}
    /\ ing_pc' = "done"
    /\ UNCHANGED <<ing_env, ing_docs, ing_nodes, ing_embedded, ing_error>>
    /\ UNCHANGED appvars

(***************************************************************************)
(* The system.                                                             *)
(***************************************************************************)
AppInit ==
    /\ api_key \in {None, "sk-1"}
    /\ token_counter = ZeroCounts
    /\ index_loaded = FALSE
    /\ cache = [p \in Prompts |-> Miss]
    /\ calls = 0
    /\ session_state = [s \in Sessions |-> EmptyDict]
    /\ ui = [s \in Sessions |-> BlankPage]
    /\ pc = [s \in Sessions |-> "idle"]
    /\ run = [s \in Sessions |-> NoRun]
    /\ failed = [s \in Sessions |-> FALSE]

IngestInit ==
    /\ ing_pc = "idle"
    /\ ing_env = EmptyDict
    /\ ing_docs = <<>>
    /\ ing_nodes = <<>>
    /\ ing_embedded = 0
    /\ ing_remote = {}
    /\ ing_persists = 0
    /\ ing_error = None

vars == <<api_key, token_counter, index_loaded, cache, calls, session_state,
          ui, pc, run, failed, storage, ing_pc, ing_env, ing_docs, ing_nodes,
          ing_embedded, ing_remote, ing_persists, ing_error>>

Init ==
    /\ AppInit
    /\ IngestInit
    /\ storage \in {"absent", "old"}

\* the steps of the chat engine for a run that waits for it
Engine(s) ==
    \/ CondenseDone(s)
    \/ CondenseRaise(s)
    \/ AnswerDone(s)
    \/ AnswerRaise(s)
    \/ Finish(s)

Ingest ==
    \/ IngestLaunch
    \/ load_environment_vars
    \/ initialize_github_loader
    \/ load_data
    \/ ParseNodes
    \/ EmbedNode
    \/ Persist

\* One browser session uses every widget of the page, on the ./storage it
\* finds.
Next ==
    \/ Interact("s1")
    \/ ClickClear("s1")
    \/ RunAfterCallback("s1")
    \/ Engine("s1")

Spec == Init /\ [][Next]_vars

\* Two browser sessions of one process enter keys and type questions.
SharedInit ==
    /\ AppInit
    /\ IngestInit
    /\ storage = "old"

SharedNext ==
    \E s \in Sessions :
        \/ InteractPlain(s)
        \/ Engine(s)

SharedSpec == SharedInit /\ [][SharedNext]_vars

\* The ingestion script runs once; afterwards a browser session enters keys
\* and types questions.
PipelineNext ==
    \/ Ingest
    \/ InteractPlain("s1")
    \/ Engine("s1")

PipelineSpec == Init /\ [][PipelineNext]_vars

(***************************************************************************)
(* Properties.                                                             *)
(***************************************************************************)
PromptTotal(st) == Get(st, "llm_prompt_tokens", 0)
CompletionTotal(st) == Get(st, "llm_completion_tokens", 0)

\* the step appends an assistant message to the history of session s
Answered(s) ==
    LET m == Msgs(session_state[s])
        n == Msgs(session_state'[s])
    IN  Len(n) > Len(m) /\ Len(n) > 1 /\ Last(n).role = "assistant"

\* the tokens the LLM calls of the run of s recorded, when the step ends a
\* run that called the engine (a run served from the cache made no call)
OwnPrompt(s) == IF pc[s] = "respond" THEN run[s].prompt_tokens ELSE 0
OwnCompletion(s) == IF pc[s] = "respond" THEN run[s].completion_tokens ELSE 0

GrowsByOwn(s) ==
    /\ PromptTotal(session_state'[s]) = PromptTotal(session_state[s]) + OwnPrompt(s)
    /\ CompletionTotal(session_state'[s])
         = CompletionTotal(session_state[s]) + OwnCompletion(s)

\* the step is a script run that takes a new question p and answers it from
\* the cache
CacheServed(s) ==
    /\ pc[s] \in {"idle", "callback"}
    /\ Answered(s)
    /\ Len(Msgs(session_state'[s])) = Len(Msgs(session_state[s])) + 2

\* C1: with 'Cache Results' on, a prompt submitted again is answered from the
\* cache with the stored answer text, without a call of the chat engine, and
\* the run leaves both session token totals as they were.
C1_CachedRunKeepsTotals ==
    [][\A s \in Sessions :
         CacheServed(s) =>
           LET n == Msgs(session_state'[s])
               p == n[Len(n) - 1].content
           IN  /\ Last(n).content = cache[p].response
               /\ calls' = calls
               /\ PromptTotal(session_state'[s]) = PromptTotal(session_state[s])
               /\ CompletionTotal(session_state'[s]) = CompletionTotal(session_state[s])
      ]_vars

\* C2: the token totals are scoped to a session: whenever a run of a session
\* adds to that session's totals, they grow by exactly the tokens the run's
\* own completion calls consumed, whatever the other sessions do meanwhile.
C2_TotalsScopedToSession ==
    [][\A s \in Sessions : Answered(s) => GrowsByOwn(s)]_vars

\* the step leaves a waiting run of s through the except branch of layout
ExceptStep(s) ==
    /\ pc[s] \in {"condense", "answer", "respond"}
    /\ pc'[s] = "idle"
    /\ failed'[s]

\* C3: a query that raises is caught and its error shown, without a retry;
\* no assistant message is appended and the session totals stay; the next
\* question of the session is then processed as in a session in which no
\* query failed: the totals grow by what answering that question consumed.
C3_FailedQueryLeavesSessionIntact ==
    [][\A s \in Sessions :
         /\ ExceptStep(s) =>
              /\ ui'[s].error
              /\ calls' = calls
              /\ session_state'[s] = session_state[s]
         /\ (failed[s] /\ Answered(s)) => GrowsByOwn(s)
      ]_vars

\* a run of a session whose earlier queries all succeeded adds exactly its
\* own tokens when no other session uses the process
NoFailureGrowsByOwn ==
    [][\A s \in Sessions : (~failed[s] /\ Answered(s)) => GrowsByOwn(s)]_vars

WellFormed(item) ==
    /\ item.has_metadata
    /\ Has(item.metadata, "filename")
    /\ Has(item.metadata, "author")

RECURSIVE CountWellFormed(_)
CountWellFormed(nodes) ==
    IF nodes = <<>> THEN 0
    ELSE (IF WellFormed(Head(nodes)) THEN 1 ELSE 0) + CountWellFormed(Tail(nodes))

\* C6: a source node with malformed metadata is skipped and is not fatal:
\* for every response the engine returns, get_metadata returns normally,
\* the assistant message is appended and its sources hold one entry for
\* every well-formed node.
C6_MalformedSourcesSkipped ==
    [][\A s \in Sessions :
         (pc[s] = "respond" /\ pc'[s] = "idle") =>
           /\ ~get_metadata(run[s].response).raised
           /\ Answered(s)
           /\ Len(Last(Msgs(session_state'[s])).sources)
                = CountWellFormed(run[s].response.source_nodes)
      ]_vars

\* the turns of the session before the question that is being answered
PriorTurns(m) == SubSeq(m, 2, Len(m) - 1)

\* an earlier question of the conversation has been answered
HasEarlierTurn(m) == \E i \in 1..Len(PriorTurns(m)) : PriorTurns(m)[i].role = "assistant"

\* C7: while chat(prompt) runs for a question that is not the first of the
\* conversation, the engine's conversation history holds the earlier turns
\* of the session.
C7_EngineHoldsEarlierTurns ==
    \A s \in Sessions :
        (pc[s] \in {"condense", "answer"} /\ HasEarlierTurn(Msgs(session_state[s])))
          => run[s].chat_history = PriorTurns(Msgs(session_state[s]))

ClearedKeys == {"messages", "btn_llama_index", "btn_retriever", "btn_diff", "btn_rag"}

\* C8: clear_chat_history leaves exactly the greeting in the message list
\* and all four button flags False, and changes nothing else: not the token
\* totals, the toggles or the entered key of the session, nor the cache.
C8_ClearResetsChatOnly ==
    [][\A s \in Sessions :
         (pc[s] = "idle" /\ pc'[s] = "callback") =>
           LET st == session_state'[s]
           IN  /\ st["messages"] = <<Greeting>>
               /\ \A b \in Buttons : Has(st, b) /\ st[b] = FALSE
               /\ Del(st, ClearedKeys) = Del(session_state[s], ClearedKeys)
               /\ UNCHANGED <<api_key, cache, token_counter, index_loaded>>
      ]_vars

\* a clear of a conversation that has an answer, a pressed button and tokens
C8_Witness ==
    /\ pc["s1"] = "callback"
    /\ PromptTotal(session_state["s1"]) > 0
    /\ session_state["s1"]["with_cache"] = FALSE
    /\ \E p \in Prompts : cache[p] # Miss

\* C9: a run that finds openai.api_key empty renders the sidebar, so the
\* page that shows the warning also shows the OPENAI-API-KEY field.
C9_KeyFieldOfferedWithoutKey ==
    \A s \in Sessions : ui[s].warning => ui[s].sidebar

\* C10: the message list starts with the greeting; the prompt handed to
\* the engine is a non-empty string, the content of the last message, which
\* is a user message; an assistant message follows a user message.
C10_PromptIsLastUserMessage ==
    /\ [](\A s \in Sessions :
            LET m == Msgs(session_state[s])
            IN  /\ Has(session_state[s], "messages") => (m # <<>> /\ m[1] = Greeting)
                /\ pc[s] \in {"condense", "answer", "respond"} =>
                     /\ Truthy(run[s].prompt)
                     /\ Last(m).role = "user"
                     /\ Last(m).content = run[s].prompt)
    /\ [][\A s \in Sessions :
            Answered(s) =>
              LET n == Msgs(session_state'[s])
              IN  n[Len(n) - 1].role = "user"]_vars

(***************************************************************************)
(* Credentials and ingestion (PipelineSpec).                               *)
(***************************************************************************)
\* the step is a script run of session s
IsScriptRun(s) ==
    /\ pc[s] \in {"idle", "callback"}
    /\ \E ev \in Events(s) : ScriptRun(s, ev)

MissingCredential ==
    \/ ~Truthy(ing_env["OPENAI_API_KEY"])
    \/ ~Truthy(ing_env["GITHUB_TOKEN"])

\* C4: a run of the application that finds openai.api_key empty shows the
\* warning and stops: the index is not loaded, no engine is called, nothing
\* is answered.  The ingestion script with OPENAI_API_KEY or GITHUB_TOKEN
\* unset or empty ends with EnvironmentError before the loader is created
\* and before any fetch, embedding or persist.
C4_NoCredentialNoRemoteCall ==
    /\ [][\A s \in Sessions :
            (IsScriptRun(s) /\ ~Truthy(api_key')) =>
              /\ ui'[s].warning
              /\ ~ui'[s].chat
              /\ pc'[s] = "idle"
              /\ Msgs(session_state'[s]) = Msgs(session_state[s])
              /\ UNCHANGED <<index_loaded, calls, cache, token_counter, run>>]_vars
    /\ []((ing_pc # "idle" /\ MissingCredential) =>
            /\ ing_pc = "env" \/ (ing_pc = "failed" /\ ing_error = "EnvironmentError")
            /\ ing_remote = {}
            /\ ing_docs = <<>>
            /\ ing_embedded = 0
            /\ ing_persists = 0)

C4_Witness ==
    /\ ing_pc = "failed"
    /\ ing_error = "EnvironmentError"
    /\ Truthy(ing_env["OPENAI_API_KEY"])
    /\ ui["s1"].warning
    /\ Has(session_state["s1"], "openai_api_key")
    /\ ~index_loaded

RECURSIVE TotalChunks(_)
TotalChunks(docs) ==
    IF docs = <<>> THEN 0 ELSE Head(docs).chunks + TotalChunks(Tail(docs))

AllTagged(docs) ==
    \A i \in 1..Len(docs) :
        /\ Has(docs[i].metadata, "filename")
        /\ Has(docs[i].metadata, "author")

\* C5: persist runs at most once, and only after every fetched document was
\* tagged, parsed into nodes and embedded; when the run fails, persist has
\* not run, ./storage is as it was and the error has been re-raised.
C5_FailFastIngestion ==
    /\ [](/\ ing_persists <= 1
          /\ ing_persists = 1 =>
               /\ ing_pc = "done"
               /\ AllTagged(ing_docs)
               /\ Len(ing_nodes) = TotalChunks(ing_docs)
               /\ ing_embedded = Len(ing_nodes)
          /\ ing_pc = "failed" =>
               /\ ing_persists = 0
               /\ "persist" \notin ing_remote
               /\ storage # "new"
               /\ ing_error # None)
    /\ [][/\ storage' # storage => (ing_pc = "embed" /\ ing_pc' = "done")
          /\ ing_pc' = "failed" => (storage' = storage /\ ing_persists' = 0)]_vars

\* the embedding of a batch of two documents failed partway
C5_Witness ==
    /\ ing_pc = "failed"
    /\ ing_error = "Exception"
    /\ Len(ing_docs) = 2
    /\ ing_embedded >= 1
    /\ ing_embedded < Len(ing_nodes)
    /\ storage = "old"

====
